---- MODULE Spec2Model ----
(***************************************************************************)
(* Model of the geocoin game of src/src/main.ts: the live cache list, the  *)
(* memento table, coin collection and deposit, player movement, reset and  *)
(* the save/load of the game state.                                        *)
(*                                                                         *)
(* Representation of numbers.  Latitudes and longitudes are integers in    *)
(* units of 1e-9 degree, measured from the south-west corner of the grid   *)
(* cell (GRID_ORIGIN_I, GRID_ORIGIN_J) that contains OAKES_CLASSROOM, so   *)
(* that they fit the checker's integers.  Distances on the ground are in   *)
(* units of 1e-6 metre.  Values of luck() and of Math.cos / Math.sin are   *)
(* in thousandths.  With these units  metres * cos / 111139  is a number   *)
(* of degree units.  Products are divided with TruncMulDiv, which rounds   *)
(* toward zero like the real quotient loses its fraction.                  *)
(*                                                                         *)
(* A JavaScript string that the program parses (a memento) is a sequence   *)
(* of one-character strings; a string that is only built and compared (a   *)
(* cache id, a coin id, a memento key) is a string.                        *)
(***************************************************************************)
EXTENDS Integers, Sequences, FiniteSets, TLC

VARIABLES
    luckTable,          \* the values of luck(), fixed for the whole run
    playerCoins,        \* main.ts:45
    cacheLocations,     \* main.ts:78, the live caches
    geocacheMementos,   \* main.ts:157, key -> memento
    playerLocation,     \* main.ts:347
    geolocationActive,  \* main.ts:411
    watchers,           \* position watchers registered with the browser (main.ts:440)
    movementHistory,    \* main.ts:449
    localStorage,       \* the "gameState" item of the browser's storage
    geocache,           \* a Geocache object (main.ts:133), for the memento law
    momento,            \* a memento taken from it
    held,               \* history: the coins the player took out of caches and still holds
    evicted,            \* history: <<cache id, cell key>> -> coin count at its last eviction
    last,               \* history: the handler that ran last, and its outcome
    events,             \* history: number of events handled so far
    stale,              \* history: keys whose memento was written before the last reset
    knownCells,         \* the board's registry of Cell objects (followed in SpecBoard)
    lookups             \* history: point -> the Cell objects the board returned for it

vars == <<luckTable, playerCoins, cacheLocations, geocacheMementos, playerLocation,
          geolocationActive, watchers, movementHistory, localStorage, geocache,
          momento, held, evicted, last, events, stale, knownCells, lookups>>

-----------------------------------------------------------------------------
(* Bounds of the model *)

\* the number of events (clicks, position reports, page loads) of a run
MaxEvents == 4
\* |i|, |j| of the Geocache objects of the memento law
MaxCoord == 12
\* coin count of the Geocache objects of the memento law
MaxNumCoins == 11
\* the number of events of a run that starts with a malformed memento
MaxMalformedEvents == 2
\* the number of events of a run that follows the board's registry
MaxBoardEvents == 3

-----------------------------------------------------------------------------
(* Strings and numbers *)

Digits == <<"0", "1", "2", "3", "4", "5", "6", "7", "8", "9">>

RECURSIVE NatToChars(_)
NatToChars(n) ==
    IF n < 10 THEN <<Digits[n + 1]>>
    ELSE NatToChars(n \div 10) \o <<Digits[(n % 10) + 1]>>

\* `${n}` of an integer n, as a sequence of characters
NumberToChars(n) == IF n < 0 THEN <<"-">> \o NatToChars(-n) ELSE NatToChars(n)

RECURSIVE NatToString(_)
NatToString(n) ==
    IF n < 10 THEN Digits[n + 1]
    ELSE NatToString(n \div 10) \o Digits[(n % 10) + 1]

\* `${n}` of an integer n, as a string
NumberToString(n) == IF n < 0 THEN "-" \o NatToString(-n) ELSE NatToString(n)

NaN == "NaN"
undefined == "undefined"

\* v is a number and not NaN or undefined (which the model keeps as strings)
IsNumber(v) == ToString(v) \notin {ToString(NaN), ToString(undefined)}

DigitValue(c) == CHOOSE d \in 0..9 : Digits[d + 1] = c
IsDigit(c) == \E d \in 0..9 : Digits[d + 1] = c

RECURSIVE DigitsValue(_, _)
DigitsValue(s, acc) ==
    IF s = <<>> THEN acc
    ELSE DigitsValue(Tail(s), acc * 10 + DigitValue(Head(s)))

\* Number(s) for the strings a memento can hold: "" is 0, an optionally signed
\* run of digits is its value, anything else is NaN
Number(s) ==
    LET body == IF s # <<>> /\ Head(s) \in {"-", "+"} THEN Tail(s) ELSE s
        neg == s # <<>> /\ Head(s) = "-"
    IN  IF s = <<>> THEN 0
        ELSE IF body = <<>> \/ \E k \in 1..Len(body) : ~IsDigit(body[k]) THEN NaN
        ELSE IF neg THEN -DigitsValue(body, 0) ELSE DigitsValue(body, 0)

RECURSIVE SplitFrom(_, _, _)
SplitFrom(s, sep, cur) ==
    IF s = <<>> THEN <<cur>>
    ELSE IF Head(s) = sep THEN <<cur>> \o SplitFrom(Tail(s), sep, <<>>)
    ELSE SplitFrom(Tail(s), sep, Append(cur, Head(s)))

\* s.split(sep) for a one-character separator
Split(s, sep) == SplitFrom(s, sep, <<>>)

\* a * b / c (c > 0) rounded toward zero, without forming a * b
MulDivNat(a, b, c) == (a \div c) * b + ((a % c) * b) \div c
TruncMulDiv(a, b, c) ==
    IF (a >= 0) = (b >= 0)
    THEN MulDivNat(IF a >= 0 THEN a ELSE -a, IF b >= 0 THEN b ELSE -b, c)
    ELSE -MulDivNat(IF a >= 0 THEN a ELSE -a, IF b >= 0 THEN b ELSE -b, c)

Last(s) == s[Len(s)]
Front(s) == SubSeq(s, 1, Len(s) - 1)
Range(s) == {s[k] : k \in 1..Len(s)}

-----------------------------------------------------------------------------
(* Program constants *)

\* OAKES_CLASSROOM = (36.98949379578401, -122.06277128548504): the cell that
\* contains it, and its offset inside that cell in 1e-9 degree
GRID_ORIGIN_I == 36989
GRID_ORIGIN_J == -122063
OAKES_LAT == 493796
OAKES_LNG == 228715
OAKES_CLASSROOM == [lat |-> OAKES_LAT, lng |-> OAKES_LNG]

\* tileWidth = 0.001 degree
tileWidth == 1000000
\* MOVE_DISTANCE = 0.0001 degree
MOVE_DISTANCE == 100000
\* CACHE_VISIBILITY_RADIUS = 0.005, compared with a distance in metres
CACHE_VISIBILITY_RADIUS == 5000
\* the radius of initializeCacheLocations(OAKES_CLASSROOM, 5, 100), in metres
INIT_RADIUS == 100000000
\* the number of caches of initializeCacheLocations(.., 5, ..) and of the loop
\* of updateCacheLocations
NUM_CACHES == 5
\* metres per degree of latitude
METERS_PER_DEGREE == 111139
\* Math.cos(lat * Math.PI / 180) at the latitude of OAKES_CLASSROOM, in
\* thousandths; the model's positions stay within a few cells of it
COS_LAT == 799

-----------------------------------------------------------------------------
(* luck.ts and board.ts are imported by main.ts and are not among the sources;
   they are modelled from the specification's sections 4.1 and 4.2 *)

\* luck() returns a value in [0, 1): here v / LUCK_DENOM with v in 0..LUCK_DENOM-1
LUCK_DENOM == 1000

CacheId(i) == "cache-" \o NumberToString(i)

AngleKey(cacheId) == cacheId \o "-angle"
DistanceKey(cacheId) == cacheId \o "-distance"
CoinsKey(cacheId) == cacheId \o ",coins"

CacheIndices == 0..(NUM_CACHES - 1)
LuckKeys ==
    UNION {{AngleKey(CacheId(i)), DistanceKey(CacheId(i)), CoinsKey(CacheId(i))}
           : i \in CacheIndices}

\* The deterministic value generator: a pure function of its key
luck(situation) == luckTable[situation]

\* A table of luck() from the angles, distances and coin values of cache-0..4
MakeLuck(angles, distances, coins) ==
    [k \in LuckKeys |->
        LET i == CHOOSE n \in CacheIndices :
                    k \in {AngleKey(CacheId(n)), DistanceKey(CacheId(n)),
                           CoinsKey(CacheId(n))}
        IN  IF k = AngleKey(CacheId(i)) THEN angles[i + 1]
            ELSE IF k = DistanceKey(CacheId(i)) THEN distances[i + 1]
            ELSE coins[i + 1]]

\* The tables of luck() the model is run with.  Angles are multiples of an
\* eighth of a turn (the values Cos1000 and Sin1000 tabulate).
LuckTables ==
    { \* the caches of initializeCacheLocations scatter around the player's cell
      MakeLuck(<<0, 250, 500, 750, 125>>, <<900, 900, 900, 900, 900>>,
               <<370, 0, 150, 250, 0>>),
      \* cache-0 and cache-3 start in the player's cell
      MakeLuck(<<0, 250, 500, 750, 375>>, <<0, 500, 900, 100, 900>>,
               <<150, 370, 0, 0, 150>>),
      \* every cache is generated with the same number of coins
      MakeLuck(<<625, 875, 500, 0, 250>>, <<900, 300, 600, 900, 0>>,
               <<150, 150, 199, 100, 150>>) }

\* Math.cos(2 * Math.PI * a / 1000) and Math.sin(..) in thousandths
Cos1000(a) ==
    CASE a = 0 -> 1000 [] a = 125 -> 707 [] a = 250 -> 0 [] a = 375 -> -707
      [] a = 500 -> -1000 [] a = 625 -> -707 [] a = 750 -> 0 [] a = 875 -> 707
Sin1000(a) ==
    CASE a = 0 -> 0 [] a = 125 -> 707 [] a = 250 -> 1000 [] a = 375 -> 707
      [] a = 500 -> 0 [] a = 625 -> -707 [] a = 750 -> -1000 [] a = 875 -> -707

\* board.getCellForPoint: i = floor(lat / tileWidth), j = floor(lng / tileWidth)
getCellForPoint(point) ==
    [i |-> GRID_ORIGIN_I + (point.lat \div tileWidth),
     j |-> GRID_ORIGIN_J + (point.lng \div tileWidth)]

-----------------------------------------------------------------------------
(* Geocache and its mementos *)

Geocache(i, j, numCoins) == [i |-> i, j |-> j, numCoins |-> numCoins]

\* `${this.i},${this.j},${this.numCoins}`
toMomento(this) ==
    NumberToChars(this.i) \o <<",">> \o NumberToChars(this.j) \o <<",">>
        \o NumberToChars(this.numCoins)

\* fromMomento with the first two fields taken in the wrong order
fromMomentoSwapped(this, m) ==
    LET parts == Split(m, ",")
        at(k) == IF k <= Len(parts) THEN Number(parts[k]) ELSE undefined
    IN  [i |-> at(2), j |-> at(1), numCoins |-> at(3)]

\* const [i, j, numCoins] = momento.split(",").map(Number)
fromMomento(this, m) ==
    LET parts == Split(m, ",")
        at(k) == IF k <= Len(parts) THEN Number(parts[k]) ELSE undefined
    IN  [i |-> at(1), j |-> at(2), numCoins |-> at(3)]

\* the key `${cell.i},${cell.j}` of the memento table
MementoKey(cell) == NumberToString(cell.i) \o "," \o NumberToString(cell.j)

\* geocacheMementos[key] is truthy: the key is there and its string is not empty
HasMemento(mementos, key) == key \in DOMAIN mementos /\ mementos[key] # <<>>

\* generateNumberOfCoins without its "+ 1"
generateNumberOfCoinsNoOffset(cacheId) ==
    (luck(CoinsKey(cacheId)) * 10) \div LUCK_DENOM

\* Math.floor((luck(baseKey) * 10) + 1)
generateNumberOfCoins(cacheId) ==
    LET baseKey == CoinsKey(cacheId)
    IN  (luck(baseKey) * 10 + LUCK_DENOM) \div LUCK_DENOM

\* the coins pushed by the loop  for (let j = 0; j < numCoins; j++)
\* (no iteration when numCoins is NaN, undefined or not positive)
CoinIdPrefix(cell) == NumberToString(cell.i) \o ":" \o NumberToString(cell.j) \o "#"
CoinsWithPrefix(prefix, cacheId, numCoins) ==
    [n \in 1..numCoins |->
        [id |-> prefix \o NumberToString(n - 1), originatingCacheId |-> cacheId]]
MakeCoins(cell, cacheId, numCoins) ==
    IF IsNumber(numCoins) /\ numCoins > 0
    THEN CoinsWithPrefix(CoinIdPrefix(cell), cacheId, numCoins)
    ELSE <<>>

\* the point at `distance` metres from `center` in direction `angle`
OffsetPoint(center, angle, distance) ==
    LET offsetLat == TruncMulDiv(distance, Cos1000(angle), METERS_PER_DEGREE)
        offsetLng == TruncMulDiv(distance, Sin1000(angle),
                                 (METERS_PER_DEGREE * COS_LAT) \div 1000)
    IN  [lat |-> center.lat + offsetLat, lng |-> center.lng + offsetLng]

\* isCacheVisible: the distance, by the equirectangular approximation, is at
\* most CACHE_VISIBILITY_RADIUS (both sides squared)
isCacheVisible(cacheLocation, playerPosition) ==
    LET distanceLat == TruncMulDiv(cacheLocation.lat - playerPosition.lat,
                                   METERS_PER_DEGREE, 1000)
        distanceLng == TruncMulDiv(cacheLocation.lng - playerPosition.lng,
                                   (METERS_PER_DEGREE * COS_LAT) \div 1000, 1000)
    IN  distanceLat * distanceLat + distanceLng * distanceLng
            <= CACHE_VISIBILITY_RADIUS * CACHE_VISIBILITY_RADIUS

-----------------------------------------------------------------------------
(* The cache list and the memento table *)

Cache(cell, coins, id) == [cell |-> cell, coins |-> coins, id |-> id]

\* one iteration of the loop of initializeCacheLocations: the cache it pushes
InitialCache(center, i, radius) ==
    LET cacheId == CacheId(i)
        angle == luck(AngleKey(cacheId))
        distance == TruncMulDiv(radius, luck(DistanceKey(cacheId)), LUCK_DENOM)
        cacheLocation == OffsetPoint(center, angle, distance)
        cell == getCellForPoint(cacheLocation)
        numCoins == generateNumberOfCoins(cacheId)
    IN  Cache(cell, MakeCoins(cell, cacheId, numCoins), cacheId)

\* initializeCacheLocations: the caches it appends to cacheLocations
initializeCacheLocations(center, numCaches, radius) ==
    [k \in 1..numCaches |-> InitialCache(center, k - 1, radius)]

\* the keys the forEach of updateCacheLocations writes
SavedKeys(caches) == {MementoKey(caches[k].cell) : k \in 1..Len(caches)}

\* the forEach writing into an emptied table
SaveMementosFresh(mementos, caches) ==
    [key \in SavedKeys(caches) |->
        LET k == CHOOSE n \in 1..Len(caches) :
                    /\ MementoKey(caches[n].cell) = key
                    /\ \A m \in (n + 1)..Len(caches) : MementoKey(caches[m].cell) # key
        IN  toMomento(Geocache(caches[k].cell.i, caches[k].cell.j, Len(caches[k].coins)))]

\* the forEach of updateCacheLocations: every live cache, in list order, writes
\* its memento under the key of its cell
RECURSIVE SaveMementos(_, _)
SaveMementos(mementos, caches) ==
    IF caches = <<>> THEN mementos
    ELSE LET cache == Head(caches)
             key == MementoKey(cache.cell)
             m == toMomento(Geocache(cache.cell.i, cache.cell.j, Len(cache.coins)))
         IN  SaveMementos([k \in DOMAIN mementos \cup {key} |->
                              IF k = key THEN m ELSE mementos[k]],
                          Tail(caches))

\* RestoredOrGenerated generating again when the memento holds no coin
RestoredOrGeneratedRefill(mementos, cell, cacheId) ==
    LET key == MementoKey(cell)
        stored == IF HasMemento(mementos, key)
                  THEN fromMomento(Geocache(cell.i, cell.j, 0), mementos[key]).numCoins
                  ELSE 0
    IN  IF stored # 0 THEN stored ELSE generateNumberOfCoins(cacheId)

\* the coin count updateCacheLocations gives the cache `cacheId` of `cell`
RestoredOrGenerated(mementos, cell, cacheId) ==
    LET key == MementoKey(cell)
    IN  IF HasMemento(mementos, key)
        THEN fromMomento(Geocache(cell.i, cell.j, 0), mementos[key]).numCoins
        ELSE generateNumberOfCoins(cacheId)

\* one iteration of the second loop of updateCacheLocations: the caches it pushes
MaterialisedCache(mementos, player, i) ==
    LET cacheId == CacheId(i)
        angle == luck(AngleKey(cacheId))
        distance == TruncMulDiv(CACHE_VISIBILITY_RADIUS, luck(DistanceKey(cacheId)),
                                LUCK_DENOM)
        cacheLocation == OffsetPoint(player, angle, distance)
        cell == getCellForPoint(cacheLocation)
        numCoins == RestoredOrGenerated(mementos, cell, cacheId)
    IN  IF isCacheVisible(cacheLocation, player)
        THEN <<Cache(cell, MakeCoins(cell, cacheId, numCoins), cacheId)>>
        ELSE <<>>

RECURSIVE MaterialisedFrom(_, _, _)
MaterialisedFrom(mementos, player, i) ==
    IF i >= NUM_CACHES THEN <<>>
    ELSE MaterialisedCache(mementos, player, i) \o MaterialisedFrom(mementos, player, i + 1)

\* updateCacheLocations without  cacheLocations.length = 0
updateCacheLocationsKeepsLive(caches, mementos, player) ==
    LET saved == SaveMementos(mementos, caches)
    IN  [geocacheMementos |-> saved,
         cacheLocations |-> caches \o MaterialisedFrom(saved, player, 0)]

\* updateCacheLocations: the memento table and the cache list it leaves
updateCacheLocations(caches, mementos, player) ==
    LET saved == SaveMementos(mementos, caches)
    IN  [geocacheMementos |-> saved,
         cacheLocations |-> MaterialisedFrom(saved, player, 0)]

\* the board before its first lookup: no Cell object, none allocated
NoCells == [cells |-> <<>>, allocated |-> 0]

\* history: the coin count of every cache that updateCacheLocations evicts
RECURSIVE RecordEvicted(_, _)
RecordEvicted(ev, caches) ==
    IF caches = <<>> THEN ev
    ELSE LET cache == Head(caches)
             key == <<cache.id, MementoKey(cache.cell)>>
         IN  RecordEvicted([k \in DOMAIN ev \cup {key} |->
                               IF k = key THEN Len(cache.coins) ELSE ev[k]],
                           Tail(caches))

\* updatePopup leaves one marker per cell: the one of the last cache of the
\* list in that cell.  These are the indices a collect or deposit button exists for.
ClickableIndices(caches) ==
    {k - 1 : k \in {n \in 1..Len(caches) :
                      \A m \in (n + 1)..Len(caches) : caches[m].cell # caches[n].cell}}

\* saveGameState: the record written to storage
GameState(coins, position, caches, history) ==
    [playerCoins |-> coins,
     playerPosition |-> [lat |-> position.lat, lng |-> position.lng],
     cacheLocations |-> [k \in 1..Len(caches) |->
                            [id |-> caches[k].id, coins |-> caches[k].coins,
                             cell |-> caches[k].cell]],
     movementHistory |-> [k \in 1..Len(history) |->
                            [lat |-> history[k].lat, lng |-> history[k].lng]]]

NoOp == [op |-> "none", index |-> -1, ok |-> TRUE]
Did(op, index, ok) == [op |-> op, index |-> index, ok |-> ok]

-----------------------------------------------------------------------------
(* The script of main.ts, run when the page is loaded *)

\* loadGameState on the state (coins, caches, mementos, ev) the script has built
loadGameState(storage, st) ==
    IF storage = <<>> THEN st
    ELSE LET gameState == storage[1]
             position == gameState.playerPosition
             loaded == [k \in 1..Len(gameState.cacheLocations) |->
                          Cache(gameState.cacheLocations[k].cell,
                                gameState.cacheLocations[k].coins,
                                gameState.cacheLocations[k].id)]
             u == updateCacheLocations(loaded, st.geocacheMementos, position)
         IN  [playerCoins |-> gameState.playerCoins,
              playerLocation |-> position,
              cacheLocations |-> u.cacheLocations,
              geocacheMementos |-> u.geocacheMementos,
              movementHistory |-> gameState.movementHistory,
              evicted |-> RecordEvicted(st.evicted, loaded),
              dropped |-> st.cacheLocations]

\* the state the script leaves, before its call of loadGameState (lines 1-574)
Started ==
    LET initial == initializeCacheLocations(OAKES_CLASSROOM, NUM_CACHES, INIT_RADIUS)
        u == updateCacheLocations(initial, <<>>, OAKES_CLASSROOM)
    IN  [playerCoins |-> 0,
         playerLocation |-> OAKES_CLASSROOM,
         cacheLocations |-> u.cacheLocations,
         geocacheMementos |-> u.geocacheMementos,
         movementHistory |-> <<>>,
         evicted |-> RecordEvicted(<<>>, initial),
         dropped |-> <<>>]

\* the whole script, given what the browser's storage holds
PageLoad(storage) == loadGameState(storage, Started)

FreshGeocache == Geocache(0, 0, 0)

Init ==
    /\ luckTable \in LuckTables
    /\ \E st \in {PageLoad(<<>>)} :
           /\ playerCoins = st.playerCoins
           /\ cacheLocations = st.cacheLocations
           /\ geocacheMementos = st.geocacheMementos
           /\ playerLocation = st.playerLocation
           /\ movementHistory = st.movementHistory
           /\ evicted = st.evicted
    /\ geolocationActive = FALSE
    /\ watchers = 0
    /\ localStorage = <<>>
    /\ geocache = FreshGeocache
    /\ momento = <<>>
    /\ held = <<>>
    /\ last = Did("load", -1, TRUE)
    /\ events = 0
    /\ stale = {}
    /\ knownCells = NoCells
    /\ lookups = <<>>

\* the page is loaded again: the script runs with the storage the last run left
Reload ==
    /\ \E st \in {PageLoad(localStorage)} :
           /\ playerCoins' = st.playerCoins
           /\ cacheLocations' = st.cacheLocations
           /\ geocacheMementos' = st.geocacheMementos
           /\ playerLocation' = st.playerLocation
           /\ movementHistory' = st.movementHistory
           /\ evicted' = st.evicted
    /\ geolocationActive' = FALSE
    /\ watchers' = 0
    /\ held' = <<>>
    /\ stale' = {}
    /\ last' = Did("load", -1, localStorage # <<>>)
    /\ UNCHANGED <<luckTable, localStorage, geocache, momento>>

-----------------------------------------------------------------------------
(* Handlers *)

Directions == {"north", "south", "east", "west"}

\* the switch of movePlayer
Moved(location, direction) ==
    CASE direction = "north" -> [lat |-> location.lat + MOVE_DISTANCE, lng |-> location.lng]
      [] direction = "south" -> [lat |-> location.lat - MOVE_DISTANCE, lng |-> location.lng]
      [] direction = "east" -> [lat |-> location.lat, lng |-> location.lng + MOVE_DISTANCE]
      [] direction = "west" -> [lat |-> location.lat, lng |-> location.lng - MOVE_DISTANCE]

movePlayer(direction) ==
    /\ \E location \in {Moved(playerLocation, direction)} :
       \E u \in {updateCacheLocations(cacheLocations, geocacheMementos, location)} :
       \E history \in {Append(movementHistory, location)} :
           /\ playerLocation' = location
           /\ cacheLocations' = u.cacheLocations
           /\ geocacheMementos' = u.geocacheMementos
           /\ movementHistory' = history
           /\ localStorage' = <<GameState(playerCoins, location, u.cacheLocations, history)>>
    /\ evicted' = RecordEvicted(evicted, cacheLocations)
    /\ stale' = stale \ SavedKeys(cacheLocations)
    /\ last' = Did("move", -1, TRUE)
    /\ UNCHANGED <<luckTable, playerCoins, geolocationActive, watchers, geocache,
                   momento, held>>

\* the positions the browser's geolocation reports: one near the west edge of
\* the starting cell, one exactly on the northern edge of the starting cell
GeoPoints ==
    {[lat |-> OAKES_LAT, lng |-> MOVE_DISTANCE \div 2],
     [lat |-> tileWidth, lng |-> OAKES_LNG]}

\* the callback given to watchPosition; the watchers are never cleared
handleGeolocationUpdate(position) ==
    /\ watchers > 0
    /\ \E u \in {updateCacheLocations(cacheLocations, geocacheMementos, position)} :
           /\ playerLocation' = position
           /\ cacheLocations' = u.cacheLocations
           /\ geocacheMementos' = u.geocacheMementos
    /\ evicted' = RecordEvicted(evicted, cacheLocations)
    /\ stale' = stale \ SavedKeys(cacheLocations)
    /\ last' = Did("geolocation", -1, TRUE)
    /\ UNCHANGED <<luckTable, playerCoins, geolocationActive, watchers, movementHistory,
                   localStorage, geocache, momento, held>>

toggleGeolocation ==
    /\ IF geolocationActive
       THEN /\ geolocationActive' = FALSE
            /\ UNCHANGED watchers
       ELSE /\ geolocationActive' = TRUE
            /\ watchers' = watchers + 1
    /\ last' = Did("toggle", -1, TRUE)
    /\ UNCHANGED stale
    /\ UNCHANGED <<luckTable, playerCoins, cacheLocations, geocacheMementos,
                   playerLocation, movementHistory, localStorage, geocache, momento,
                   held, evicted>>

\* handleCollect with the test  cache.coins.length >= 0
handleCollectUnguarded(index) ==
    LET cache == cacheLocations[index + 1]
    IN  [playerCoins |-> playerCoins + 1,
         cacheLocations |-> [cacheLocations EXCEPT ![index + 1].coins = Front(cache.coins)],
         ok |-> TRUE,
         coin |-> IF cache.coins = <<>> THEN <<>> ELSE <<Last(cache.coins)>>]

\* handleCollect emptying the cache instead of popping one coin
handleCollectClears(index) ==
    LET cache == cacheLocations[index + 1]
    IN  IF Len(cache.coins) > 0
        THEN [playerCoins |-> playerCoins + 1,
              cacheLocations |-> [cacheLocations EXCEPT ![index + 1].coins = <<>>],
              ok |-> TRUE,
              coin |-> <<Last(cache.coins)>>]
        ELSE [playerCoins |-> playerCoins, cacheLocations |-> cacheLocations,
              ok |-> FALSE, coin |-> <<>>]

\* handleCollect popping a coin from every cache that holds one
handleCollectEverywhere(index) ==
    LET cache == cacheLocations[index + 1]
    IN  IF Len(cache.coins) > 0
        THEN [playerCoins |-> playerCoins + 1,
              cacheLocations |-> [k \in 1..Len(cacheLocations) |->
                                    IF cacheLocations[k].coins = <<>>
                                    THEN cacheLocations[k]
                                    ELSE [cacheLocations[k] EXCEPT
                                            !.coins = Front(cacheLocations[k].coins)]],
              ok |-> TRUE,
              coin |-> <<Last(cache.coins)>>]
        ELSE [playerCoins |-> playerCoins, cacheLocations |-> cacheLocations,
              ok |-> FALSE, coin |-> <<>>]

\* handleCollect: what it leaves of playerCoins and cacheLocations, whether it
\* collected, and the coin it popped
handleCollect(index) ==
    LET cache == cacheLocations[index + 1]
    IN  IF Len(cache.coins) > 0
        THEN [playerCoins |-> playerCoins + 1,
              cacheLocations |-> [cacheLocations EXCEPT ![index + 1].coins = Front(cache.coins)],
              ok |-> TRUE,
              coin |-> <<Last(cache.coins)>>]
        ELSE [playerCoins |-> playerCoins, cacheLocations |-> cacheLocations,
              ok |-> FALSE, coin |-> <<>>]

\* handleDeposit with the test  playerCoins >= 0
handleDepositUnguarded(index) ==
    LET cache == cacheLocations[index + 1]
        depositedCoin ==
            [id |-> "cache-" \o NumberToString(index) \o "-coin-"
                        \o NumberToString(Len(cache.coins)),
             originatingCacheId |-> cache.id]
    IN  [playerCoins |-> playerCoins - 1,
         cacheLocations |-> [cacheLocations EXCEPT
                               ![index + 1].coins = Append(cache.coins, depositedCoin)],
         ok |-> TRUE]

\* handleDeposit giving every deposited coin the same id
handleDepositConstantId(index) ==
    IF playerCoins > 0
    THEN LET cache == cacheLocations[index + 1]
             depositedCoin ==
                 [id |-> "cache-" \o NumberToString(index) \o "-coin-0",
                  originatingCacheId |-> cache.id]
         IN  [playerCoins |-> playerCoins - 1,
              cacheLocations |-> [cacheLocations EXCEPT
                                    ![index + 1].coins = Append(cache.coins, depositedCoin)],
              ok |-> TRUE]
    ELSE [playerCoins |-> playerCoins, cacheLocations |-> cacheLocations, ok |-> FALSE]

\* handleDeposit: what it leaves of playerCoins and cacheLocations, whether it
\* deposited
handleDeposit(index) ==
    IF playerCoins > 0
    THEN LET cache == cacheLocations[index + 1]
             depositedCoin ==
                 [id |-> "cache-" \o NumberToString(index) \o "-coin-"
                             \o NumberToString(Len(cache.coins)),
                  originatingCacheId |-> cache.id]
         IN  [playerCoins |-> playerCoins - 1,
              cacheLocations |-> [cacheLocations EXCEPT
                                    ![index + 1].coins = Append(cache.coins, depositedCoin)],
              ok |-> TRUE]
    ELSE [playerCoins |-> playerCoins, cacheLocations |-> cacheLocations, ok |-> FALSE]

\* the click listener of the collect button of cache `index`
CollectClick(index) ==
    /\ index \in ClickableIndices(cacheLocations)
    /\ \E r \in {handleCollect(index)} :
           /\ playerCoins' = r.playerCoins
           /\ cacheLocations' = r.cacheLocations
           /\ held' = held \o r.coin
           /\ last' = Did("collect", index, r.ok)
           /\ localStorage' = <<GameState(r.playerCoins, playerLocation, r.cacheLocations,
                                          movementHistory)>>
    /\ UNCHANGED stale
    /\ UNCHANGED <<luckTable, geocacheMementos, playerLocation, geolocationActive,
                   watchers, movementHistory, geocache, momento, evicted>>

\* the click listener of the deposit button of cache `index`
DepositClick(index) ==
    /\ index \in ClickableIndices(cacheLocations)
    /\ \E r \in {handleDeposit(index)} :
           /\ playerCoins' = r.playerCoins
           /\ cacheLocations' = r.cacheLocations
           /\ held' = IF r.ok /\ held # <<>> THEN Front(held) ELSE held
           /\ last' = Did("deposit", index, r.ok)
           /\ localStorage' = <<GameState(r.playerCoins, playerLocation, r.cacheLocations,
                                          movementHistory)>>
    /\ UNCHANGED stale
    /\ UNCHANGED <<luckTable, geocacheMementos, playerLocation, geolocationActive,
                   watchers, movementHistory, geocache, momento, evicted>>

\* the click listener of a coin identifier: centerMapOnCache moves the view
\* only, then saveGameState
CoinIdClick ==
    /\ \E index \in ClickableIndices(cacheLocations) :
          cacheLocations[index + 1].coins # <<>>
    /\ localStorage' = <<GameState(playerCoins, playerLocation, cacheLocations,
                                   movementHistory)>>
    /\ last' = Did("coin", -1, TRUE)
    /\ UNCHANGED stale
    /\ UNCHANGED <<luckTable, playerCoins, cacheLocations, geocacheMementos,
                   playerLocation, geolocationActive, watchers, movementHistory,
                   geocache, momento, held, evicted>>

\* resetGame emptying the memento table as well
resetGameClearsMementos(confirmReset) ==
    /\ IF confirmReset
       THEN /\ playerCoins' = 0
            /\ cacheLocations' =
                  initializeCacheLocations(OAKES_CLASSROOM, NUM_CACHES, INIT_RADIUS)
            /\ playerLocation' = OAKES_CLASSROOM
            /\ movementHistory' = <<>>
            /\ localStorage' = <<>>
            /\ held' = <<>>
            /\ stale' = DOMAIN geocacheMementos
            /\ geocacheMementos' = <<>>
       ELSE UNCHANGED <<playerCoins, cacheLocations, playerLocation, movementHistory,
                        localStorage, held, stale, geocacheMementos>>
    /\ last' = Did("reset", -1, confirmReset)
    /\ UNCHANGED <<luckTable, geolocationActive, watchers, geocache,
                   momento, evicted>>

\* resetGame leaving the player's coins
resetGameKeepsCoins(confirmReset) ==
    /\ IF confirmReset
       THEN /\ playerCoins' = playerCoins
            /\ cacheLocations' =
                  initializeCacheLocations(OAKES_CLASSROOM, NUM_CACHES, INIT_RADIUS)
            /\ playerLocation' = OAKES_CLASSROOM
            /\ movementHistory' = <<>>
            /\ localStorage' = <<>>
            /\ held' = <<>>
            /\ stale' = DOMAIN geocacheMementos
       ELSE UNCHANGED <<playerCoins, cacheLocations, playerLocation, movementHistory,
                        localStorage, held, stale>>
    /\ last' = Did("reset", -1, confirmReset)
    /\ UNCHANGED <<luckTable, geocacheMementos, geolocationActive, watchers, geocache,
                   momento, evicted>>

resetGame(confirmReset) ==
    /\ IF confirmReset
       THEN /\ playerCoins' = 0
            /\ cacheLocations' =
                  initializeCacheLocations(OAKES_CLASSROOM, NUM_CACHES, INIT_RADIUS)
            /\ playerLocation' = OAKES_CLASSROOM
            /\ movementHistory' = <<>>
            /\ localStorage' = <<>>
            /\ held' = <<>>
            /\ stale' = DOMAIN geocacheMementos
       ELSE UNCHANGED <<playerCoins, cacheLocations, playerLocation, movementHistory,
                        localStorage, held, stale>>
    /\ last' = Did("reset", -1, confirmReset)
    /\ UNCHANGED <<luckTable, geocacheMementos, geolocationActive, watchers, geocache,
                   momento, evicted>>

\* an event of the browser: its handler runs to completion
Handler ==
    \/ \E direction \in Directions : movePlayer(direction)
    \/ \E position \in GeoPoints : handleGeolocationUpdate(position)
    \/ toggleGeolocation
    \/ \E index \in CacheIndices : CollectClick(index)
    \/ \E index \in CacheIndices : DepositClick(index)
    \/ CoinIdClick
    \/ \E confirmReset \in BOOLEAN : resetGame(confirmReset)
    \/ Reload

Next ==
    /\ events < MaxEvents
    /\ events' = events + 1
    /\ Handler
    /\ UNCHANGED <<knownCells, lookups>>

Spec == Init /\ [][Next]_vars

-----------------------------------------------------------------------------
(* The memento law: Geocache objects of any coordinates *)

\* the coordinates of the Geocache objects: small ones of both signs, and the
\* cell of OAKES_CLASSROOM
Coords == (-MaxCoord..MaxCoord) \cup {GRID_ORIGIN_I, GRID_ORIGIN_J}

InitMomento ==
    /\ luckTable \in {CHOOSE t \in LuckTables : TRUE}
    /\ playerCoins = 0
    /\ cacheLocations = <<>>
    /\ geocacheMementos = <<>>
    /\ playerLocation = OAKES_CLASSROOM
    /\ geolocationActive = FALSE
    /\ watchers = 0
    /\ movementHistory = <<>>
    /\ localStorage = <<>>
    /\ \E i \in Coords, j \in Coords, numCoins \in 0..MaxNumCoins :
          geocache = Geocache(i, j, numCoins)
    /\ momento = <<>>
    /\ held = <<>>
    /\ evicted = <<>>
    /\ last = NoOp
    /\ events = 0
    /\ stale = {}
    /\ knownCells = NoCells
    /\ lookups = <<>>

\* momento = geocache.toMomento()
TakeMomento ==
    /\ momento' = toMomento(geocache)
    /\ last' = Did("toMomento", -1, TRUE)
    /\ UNCHANGED stale
    /\ UNCHANGED <<luckTable, playerCoins, cacheLocations, geocacheMementos,
                   playerLocation, geolocationActive, watchers, movementHistory,
                   localStorage, geocache, held, evicted, events>>

\* geocache = new Geocache(0, 0, 0); geocache.fromMomento(momento)
RestoreMomento ==
    /\ momento # <<>>
    /\ geocache' = fromMomento(FreshGeocache, momento)
    /\ last' = Did("fromMomento", -1, TRUE)
    /\ UNCHANGED stale
    /\ UNCHANGED <<luckTable, playerCoins, cacheLocations, geocacheMementos,
                   playerLocation, geolocationActive, watchers, movementHistory,
                   localStorage, momento, held, evicted, events>>

NextMomento ==
    /\ TakeMomento \/ RestoreMomento
    /\ UNCHANGED <<knownCells, lookups>>

SpecMomento == InitMomento /\ [][NextMomento]_vars

-----------------------------------------------------------------------------
(* Coin generation: every value of luck() for the coin keys *)

CoinLuckTables ==
    {MakeLuck(<<0, 250, 500, 750, 125>>, <<900, 900, 900, 900, 900>>,
              <<v, (v + 600) % LUCK_DENOM, (v + 500) % LUCK_DENOM,
                (v + 777) % LUCK_DENOM, (LUCK_DENOM - 1) - v>>)
     : v \in 0..(LUCK_DENOM - 1)}

InitCoins ==
    /\ luckTable \in CoinLuckTables
    /\ \E st \in {PageLoad(<<>>)} :
           /\ playerCoins = st.playerCoins
           /\ cacheLocations = st.cacheLocations
           /\ geocacheMementos = st.geocacheMementos
           /\ playerLocation = st.playerLocation
           /\ movementHistory = st.movementHistory
           /\ evicted = st.evicted
    /\ geolocationActive = FALSE
    /\ watchers = 0
    /\ localStorage = <<>>
    /\ geocache = FreshGeocache
    /\ momento = <<>>
    /\ held = <<>>
    /\ last = Did("load", -1, TRUE)
    /\ events = 0
    /\ stale = {}
    /\ knownCells = NoCells
    /\ lookups = <<>>

NextCoins ==
    /\ \E confirmReset \in BOOLEAN : resetGame(confirmReset)
    /\ UNCHANGED <<events, knownCells, lookups>>

SpecCoins == InitCoins /\ [][NextCoins]_vars

-----------------------------------------------------------------------------
(* Mementos that are not the output of toMomento, as input of updateCacheLocations *)

\* the cells north and west of the starting cell: no cache is live there after
\* the page is loaded
NeighbourCells ==
    {[i |-> GRID_ORIGIN_I + 1, j |-> GRID_ORIGIN_J],
     [i |-> GRID_ORIGIN_I, j |-> GRID_ORIGIN_J - 1]}

\* strings a memento of `cell` must not be: "", "x", "i,j", "i,j,x", "i,j,-3"
MalformedMementos(cell) ==
    LET ij == NumberToChars(cell.i) \o <<",">> \o NumberToChars(cell.j)
    IN  {<<>>, <<"x">>, ij, ij \o <<",", "x">>, ij \o <<",", "-", "3">>}

\* the memento does not parse to a triple of numbers with a count >= 0
Malformed(m) ==
    LET g == fromMomento(FreshGeocache, m)
    IN  ~(IsNumber(g.i) /\ IsNumber(g.j) /\ IsNumber(g.numCoins) /\ g.numCoins >= 0)

\* the page is loaded, tracking is on, and the table holds a malformed memento
\* for a neighbouring cell
InitMalformed ==
    /\ luckTable \in LuckTables
    /\ \E st \in {PageLoad(<<>>)} :
       \E cell \in NeighbourCells :
       \E m \in MalformedMementos(cell) :
           /\ playerCoins = st.playerCoins
           /\ cacheLocations = st.cacheLocations
           /\ geocacheMementos =
                 [k \in DOMAIN st.geocacheMementos \cup {MementoKey(cell)} |->
                     IF k = MementoKey(cell) THEN m ELSE st.geocacheMementos[k]]
           /\ playerLocation = st.playerLocation
           /\ movementHistory = st.movementHistory
           /\ evicted = st.evicted
    /\ geolocationActive = TRUE
    /\ watchers = 1
    /\ localStorage = <<>>
    /\ geocache = FreshGeocache
    /\ momento = <<>>
    /\ held = <<>>
    /\ last = Did("load", -1, TRUE)
    /\ events = 0
    /\ stale = {}
    /\ knownCells = NoCells
    /\ lookups = <<>>

\* the player is taken into the neighbouring cells
NextMalformed ==
    /\ events < MaxMalformedEvents
    /\ events' = events + 1
    /\ \/ \E position \in GeoPoints : handleGeolocationUpdate(position)
       \/ \E direction \in Directions : movePlayer(direction)
    /\ UNCHANGED <<knownCells, lookups>>

SpecMalformed == InitMalformed /\ [][NextMalformed]_vars

-----------------------------------------------------------------------------
(* The board: the registry of Cell objects behind board.getCellForPoint *)

\* the Cell object registered for the cell (i, j), made and registered at the
\* first request; `ref` tells the objects apart
getCanonicalCellAlwaysNew(known, cell) ==
    LET key == MementoKey(cell)
    IN  [cells |-> [k \in DOMAIN known.cells \cup {key} |->
                       IF k = key
                       THEN [i |-> cell.i, j |-> cell.j, ref |-> known.allocated]
                       ELSE known.cells[k]],
         allocated |-> known.allocated + 1]

getCanonicalCell(known, cell) ==
    LET key == MementoKey(cell)
    IN  IF key \in DOMAIN known.cells
        THEN known
        ELSE [cells |-> [k \in DOMAIN known.cells \cup {key} |->
                            IF k = key
                            THEN [i |-> cell.i, j |-> cell.j, ref |-> known.allocated]
                            ELSE known.cells[k]],
              allocated |-> known.allocated + 1]

\* the point initializeCacheLocations looks up for cache i
InitialPoint(center, i, radius) ==
    LET cacheId == CacheId(i)
        distance == TruncMulDiv(radius, luck(DistanceKey(cacheId)), LUCK_DENOM)
    IN  OffsetPoint(center, luck(AngleKey(cacheId)), distance)

InitialPoints(center, numCaches, radius) ==
    [k \in 1..numCaches |-> InitialPoint(center, k - 1, radius)]

\* the points updateCacheLocations looks up: those of the visible caches
RECURSIVE MaterialisedPoints(_, _)
MaterialisedPoints(player, i) ==
    IF i >= NUM_CACHES THEN <<>>
    ELSE LET cacheId == CacheId(i)
             distance == TruncMulDiv(CACHE_VISIBILITY_RADIUS,
                                     luck(DistanceKey(cacheId)), LUCK_DENOM)
             cacheLocation == OffsetPoint(player, luck(AngleKey(cacheId)), distance)
         IN  (IF isCacheVisible(cacheLocation, player) THEN <<cacheLocation>> ELSE <<>>)
                 \o MaterialisedPoints(player, i + 1)

\* board.getCellForPoint for each point of the list, in order, during event
\* `event`: the registry it leaves, and for every point the objects returned
\* for it so far and the events that asked
RECURSIVE LookUpAll(_, _, _)
LookUpAll(board, points, event) ==
    IF points = <<>> THEN board
    ELSE LET point == Head(points)
             known == getCanonicalCell(board.known, getCellForPoint(point))
             cell == known.cells[MementoKey(getCellForPoint(point))]
             before == IF point \in DOMAIN board.lookups
                       THEN board.lookups[point]
                       ELSE [cells |-> {}, at |-> {}]
             now == [cells |-> before.cells \cup {cell}, at |-> before.at \cup {event}]
         IN  LookUpAll([known |-> known,
                        lookups |-> [q \in DOMAIN board.lookups \cup {point} |->
                                        IF q = point THEN now ELSE board.lookups[q]]],
                       Tail(points), event)

Looked(points) ==
    \E board \in {LookUpAll([known |-> knownCells, lookups |-> lookups], points,
                            events + 1)} :
        /\ knownCells' = board.known
        /\ lookups' = board.lookups

\* the page is loaded: the lookups of initializeCacheLocations, then those of
\* updateCacheLocations
InitBoard ==
    /\ luckTable \in LuckTables
    /\ \E st \in {PageLoad(<<>>)} :
           /\ playerCoins = st.playerCoins
           /\ cacheLocations = st.cacheLocations
           /\ geocacheMementos = st.geocacheMementos
           /\ playerLocation = st.playerLocation
           /\ movementHistory = st.movementHistory
           /\ evicted = st.evicted
    /\ \E board \in {LookUpAll([known |-> NoCells, lookups |-> <<>>],
                               InitialPoints(OAKES_CLASSROOM, NUM_CACHES, INIT_RADIUS)
                                   \o MaterialisedPoints(OAKES_CLASSROOM, 0), 0)} :
           /\ knownCells = board.known
           /\ lookups = board.lookups
    /\ geolocationActive = FALSE
    /\ watchers = 0
    /\ localStorage = <<>>
    /\ geocache = FreshGeocache
    /\ momento = <<>>
    /\ held = <<>>
    /\ last = Did("load", -1, TRUE)
    /\ events = 0
    /\ stale = {}

\* the handlers that call board.getCellForPoint, and the switch of the tracking
NextBoard ==
    /\ events < MaxBoardEvents
    /\ events' = events + 1
    /\ \/ /\ \E direction \in Directions : movePlayer(direction)
          /\ Looked(MaterialisedPoints(playerLocation', 0))
       \/ /\ \E position \in GeoPoints : handleGeolocationUpdate(position)
          /\ Looked(MaterialisedPoints(playerLocation', 0))
       \/ /\ resetGame(TRUE)
          /\ Looked(InitialPoints(OAKES_CLASSROOM, NUM_CACHES, INIT_RADIUS))
       \/ /\ toggleGeolocation
          /\ UNCHANGED <<knownCells, lookups>>

SpecBoard == InitBoard /\ [][NextBoard]_vars

-----------------------------------------------------------------------------
(* Vocabulary of the properties *)

\* the handlers that run updateCacheLocations
UpdateOps == {"move", "geolocation", "load"}

CoinCount(cache) == Len(cache.coins)

\* the coin count a memento holds
MementoCount(m) == fromMomento(FreshGeocache, m).numCoins

\* the live cache k got its coins from generateNumberOfCoins and no click has
\* touched the list since: initializeCacheLocations made it, or
\* updateCacheLocations made it and found no memento for its cell
FreshlyGenerated(k) ==
    \/ last.op = "reset" /\ last.ok
    \/ /\ last.op \in UpdateOps
       /\ ~HasMemento(geocacheMementos, MementoKey(cacheLocations[k].cell))

-----------------------------------------------------------------------------
(* Claims C1..C10 *)

\* C1: a cache that updateCacheLocations evicted with n coins, and that no
\* collect or deposit has touched since, holds exactly n coins when the cache
\* of that id is materialised again in the same cell, by the same or a later
\* updateCacheLocations.
C1_CoinStateSurvivesEviction ==
    last.op \in UpdateOps =>
        \A k \in 1..Len(cacheLocations) :
            LET cache == cacheLocations[k]
                key == <<cache.id, MementoKey(cache.cell)>>
            IN  key \in DOMAIN evicted => CoinCount(cache) = evicted[key]

\* C2: no two entries of cacheLocations have the same cell.
C2_NoDuplicateLiveCachePerCell ==
    \A a, b \in 1..Len(cacheLocations) :
        a # b => cacheLocations[a].cell # cacheLocations[b].cell

\* the caches a step removes from cacheLocations, and the memento table at the
\* moment it removes them
RemovedBy(op, ok) ==
    IF op \in {"move", "geolocation"}
        THEN [caches |-> cacheLocations, mementos |-> geocacheMementos']
    ELSE IF op = "reset" /\ ok
        THEN [caches |-> cacheLocations, mementos |-> geocacheMementos]
    ELSE IF op = "load" /\ ok
        THEN [caches |-> Started.cacheLocations \o localStorage[1].cacheLocations,
              mementos |-> geocacheMementos']
    ELSE [caches |-> <<>>, mementos |-> <<>>]

\* C3: whenever a step removes a live cache from cacheLocations, the memento
\* table holds, at that moment, an entry for the cache's cell whose coin count
\* is the cache's coin count just before the removal.
C3_EvictionIsNeverLossy ==
    [][\E r \in {RemovedBy(last'.op, last'.ok)} :
          \A k \in 1..Len(r.caches) :
              LET key == MementoKey(r.caches[k].cell)
              IN  /\ HasMemento(r.mementos, key)
                  /\ MementoCount(r.mementos[key]) = CoinCount(r.caches[k])]_vars

\* C4: a collect on a cache that holds coins succeeds, takes exactly one coin
\* out of that cache and adds exactly one to playerCoins; a collect on a cache
\* with no coins is rejected and changes neither the cache list nor playerCoins.
C4_CollectLaw ==
    [][last'.op = "collect" =>
          LET before == CoinCount(cacheLocations[last'.index + 1])
              after == CoinCount(cacheLocations'[last'.index + 1])
          IN  IF before > 0
              THEN /\ last'.ok
                   /\ after = before - 1
                   /\ playerCoins' = playerCoins + 1
              ELSE /\ ~last'.ok
                   /\ after = 0
                   /\ cacheLocations' = cacheLocations
                   /\ playerCoins' = playerCoins]_vars

\* C4 witness: a collect was rejected on a cache that earlier collects emptied.
C4_Witness ==
    /\ last.op = "collect" /\ ~last.ok
    /\ CoinCount(cacheLocations[last.index + 1]) = 0
    /\ playerCoins >= 2

\* C5: a deposit while the player holds no coins is rejected and changes
\* nothing: playerCoins stays 0 and every cache keeps its coin list.
C5_DepositWithoutCoinsRejected ==
    [][last'.op = "deposit" /\ playerCoins = 0 =>
          /\ ~last'.ok
          /\ playerCoins' = 0
          /\ cacheLocations' = cacheLocations]_vars

\* C5 witness: a deposit was rejected while the player held no coins.
C5_Witness == last.op = "deposit" /\ ~last.ok /\ playerCoins = 0

\* C6: every cache's coin count and playerCoins are never negative; a
\* successful collect changes the addressed cache's coin count by exactly -1
\* and a successful deposit by exactly +1.
C6_CoinCountLaw ==
    /\ [](/\ playerCoins >= 0
          /\ \A k \in 1..Len(cacheLocations) : CoinCount(cacheLocations[k]) >= 0)
    /\ [][last'.op \in {"collect", "deposit"} /\ last'.ok =>
             CoinCount(cacheLocations'[last'.index + 1]) =
                 CoinCount(cacheLocations[last'.index + 1])
                     + (IF last'.op = "collect" THEN -1 ELSE 1)]_vars

\* C6 witness: a deposit succeeded after a collect.
C6_Witness == last.op = "deposit" /\ last.ok /\ Len(held) = playerCoins

\* C7: a cache made by generateNumberOfCoins(cacheId) holds floor(v * 10) + 1
\* coins, v the value of luck() for the key of cacheId: an integer of 1..10
\* (4 for v = 0.37), the same whenever it is generated.
C7_GenerateNumberOfCoins ==
    \A k \in 1..Len(cacheLocations) :
        FreshlyGenerated(k) =>
            LET v == luckTable[CoinsKey(cacheLocations[k].id)]
                n == CoinCount(cacheLocations[k])
            IN  /\ n = ((v * 10) \div LUCK_DENOM) + 1
                /\ n \in 1..10
                /\ (v * 100 = 37 * LUCK_DENOM => n = 4)

\* C7 witness: a cache was generated from the value 0.37, another from the
\* largest value of luck().
C7_Witness ==
    /\ last.op = "reset" /\ last.ok
    /\ \E k \in 1..Len(cacheLocations) :
          luckTable[CoinsKey(cacheLocations[k].id)] * 100 = 37 * LUCK_DENOM
    /\ \E k \in 1..Len(cacheLocations) : CoinCount(cacheLocations[k]) = 10

\* C8: a fresh Geocache on which fromMomento(g.toMomento()) is called ends
\* with exactly the i, j and numCoins of g, negative coordinates included.
C8_MomentoRoundTrip ==
    [][last'.op = "fromMomento" /\ momento = toMomento(geocache) =>
          geocache' = geocache]_vars

\* C8 witness: a Geocache of negative coordinates and several coins was
\* restored from its memento.
C8_Witness ==
    /\ last.op = "fromMomento"
    /\ geocache.i < -9 /\ geocache.j < 0 /\ geocache.numCoins > 9

\* C9: collect and deposit move coins and never make them: the coin a deposit
\* puts into a cache is a coin the player took out of a cache, with its id
\* and originatingCacheId.
C9_CoinsAreMovedNotMade ==
    [][last'.op = "deposit" /\ last'.ok =>
          Last(cacheLocations'[last'.index + 1].coins) \in Range(held)]_vars

\* C10: two caches freshly generated in the same cell get the same number of
\* coins, whatever their cache ids.
C10_FreshContentKeyedByCell ==
    \A a, b \in 1..Len(cacheLocations) :
        /\ FreshlyGenerated(a)
        /\ FreshlyGenerated(b)
        /\ cacheLocations[a].cell = cacheLocations[b].cell
        => CoinCount(cacheLocations[a]) = CoinCount(cacheLocations[b])

-----------------------------------------------------------------------------
(* Claims C11..C20 *)

C12_SamePointSameCell ==
    \A point \in DOMAIN lookups :
        /\ Cardinality(lookups[point].cells) = 1
        /\ \A cell \in lookups[point].cells :
              /\ [i |-> cell.i, j |-> cell.j] = getCellForPoint(point)
              /\ knownCells.cells[MementoKey(getCellForPoint(point))] = cell

\* a point has been looked up during two different events, the later one a move
C12_Witness ==
    /\ last.op = "move"
    /\ \E point \in DOMAIN lookups :
          events \in lookups[point].at /\ Cardinality(lookups[point].at) >= 2

\* C13: a cache that updateCacheLocations materialises in cell (i, j) holds
\* the count stored in the memento of (i, j) when that memento exists, a
\* stored count of 0 included (an emptied cache is not refilled), and holds
\* generateNumberOfCoins of its id when there is none.
C13_GenerateOrRestore ==
    last.op \in UpdateOps =>
        \A k \in 1..Len(cacheLocations) :
            LET cache == cacheLocations[k]
                key == MementoKey(cache.cell)
            IN  IF key \in DOMAIN geocacheMementos
                THEN CoinCount(cache) = MementoCount(geocacheMementos[key])
                ELSE CoinCount(cache) = generateNumberOfCoins(cache.id)

\* one pass has restored an emptied cache as empty and generated another
C13_Witness ==
    /\ last.op \in UpdateOps
    /\ \E k \in 1..Len(cacheLocations) :
          LET key == MementoKey(cacheLocations[k].cell)
          IN  /\ key \in DOMAIN geocacheMementos
              /\ MementoCount(geocacheMementos[key]) = 0
              /\ CoinCount(cacheLocations[k]) = 0
    /\ \E k \in 1..Len(cacheLocations) :
          /\ MementoKey(cacheLocations[k].cell) \notin DOMAIN geocacheMementos
          /\ CoinCount(cacheLocations[k]) >= 1

\* C14: a run of updateCacheLocations leaves unchanged every memento whose
\* cell had no live cache when the run started (for the run inside
\* loadGameState: the table the script has built and the caches it has just
\* loaded); collect, deposit, saveGameState and resetGame change no memento.
C14_EvictionKeepsOtherMementos ==
    [][/\ last'.op \in {"move", "geolocation"} =>
            \A key \in DOMAIN geocacheMementos \ SavedKeys(cacheLocations) :
                /\ key \in DOMAIN geocacheMementos'
                /\ geocacheMementos'[key] = geocacheMementos[key]
       /\ (last'.op = "load" /\ localStorage # <<>>) =>
            \A key \in DOMAIN Started.geocacheMementos
                          \ SavedKeys(localStorage[1].cacheLocations) :
                /\ key \in DOMAIN geocacheMementos'
                /\ geocacheMementos'[key] = Started.geocacheMementos[key]
       /\ last'.op \in {"collect", "deposit", "coin", "reset"} =>
            geocacheMementos' = geocacheMementos]_vars

\* the player has moved twice and the table holds the memento of a cell that
\* no live cache is in
C14_Witness ==
    /\ last.op = "move"
    /\ Len(movementHistory) >= 2
    /\ DOMAIN geocacheMementos \ SavedKeys(cacheLocations) # {}

C16_CoinIdsUniqueInCache ==
    \A k \in 1..Len(cacheLocations) :
        \A m, n \in 1..Len(cacheLocations[k].coins) :
            m # n => cacheLocations[k].coins[m].id # cacheLocations[k].coins[n].id

\* a deposit has just put a coin on top of a cache that holds a generated coin
C16_Witness ==
    /\ last.op = "deposit" /\ last.ok
    /\ LET coins == cacheLocations[last.index + 1].coins
       IN  /\ Len(coins) >= 2
           /\ coins[1].id = CoinIdPrefix(cacheLocations[last.index + 1].cell) \o "0"
           /\ coins[Len(coins)].id =
                 "cache-" \o NumberToString(last.index) \o "-coin-"
                     \o NumberToString(Len(coins) - 1)

\* C17: a confirmed resetGame leaves playerCoins = 0, the player at
\* OAKES_CLASSROOM, movementHistory empty, the stored gameState removed, and
\* exactly the caches of initializeCacheLocations with their generated coin
\* counts; a cancelled resetGame changes nothing of the program's state.
C17_ResetPostcondition ==
    [][last'.op = "reset" =>
        IF last'.ok
        THEN /\ playerCoins' = 0
             /\ playerLocation' = OAKES_CLASSROOM
             /\ movementHistory' = <<>>
             /\ localStorage' = <<>>
             /\ Len(cacheLocations') = NUM_CACHES
             /\ \A i \in CacheIndices :
                   LET cache == cacheLocations'[i + 1]
                   IN  /\ cache.id = CacheId(i)
                       /\ cache.cell = getCellForPoint(
                              InitialPoint(OAKES_CLASSROOM, i, INIT_RADIUS))
                       /\ CoinCount(cache) = generateNumberOfCoins(cache.id)
        ELSE UNCHANGED <<playerCoins, cacheLocations, geocacheMementos,
                         playerLocation, geolocationActive, watchers,
                         movementHistory, localStorage>>]_vars

\* the game has been reset after the player had moved
C17_Witness ==
    /\ last.op = "reset" /\ last.ok
    /\ Cardinality(DOMAIN geocacheMementos) > Cardinality(DOMAIN Started.geocacheMementos)
    /\ playerLocation = OAKES_CLASSROOM
    /\ Len(cacheLocations) = NUM_CACHES

\* C18: after a confirmed resetGame no memento written before the reset is
\* restored: a cache that a later updateCacheLocations materialises never
\* takes its coin count from a memento that is older than the reset, so the
\* count does not depend on the collects and deposits made before it.
C18_ResetErasesProgress ==
    last.op \in UpdateOps =>
        \A k \in 1..Len(cacheLocations) :
            MementoKey(cacheLocations[k].cell) \notin stale

\* C19: once toggleGeolocation has switched tracking off, no geolocation
\* callback changes playerLocation, the live caches or the memento table
\* until tracking is switched on again; and however often tracking is
\* switched on, at most one position watcher is active.
C19_TrackingOffStopsUpdates ==
    /\ [](watchers <= 1)
    /\ [][(last'.op = "geolocation" /\ ~geolocationActive) =>
            UNCHANGED <<playerLocation, cacheLocations, geocacheMementos>>]_vars

\* C20: loadGameState applied to the record saveGameState wrote yields the
\* playerCoins, the player position and the movementHistory of the record,
\* and live caches with the same ids, cells and coin counts as the record.
C20_SaveLoadRoundTrip ==
    [][(last'.op = "load" /\ localStorage # <<>>) =>
        LET gameState == localStorage[1]
        IN  /\ playerCoins' = gameState.playerCoins
            /\ playerLocation' = gameState.playerPosition
            /\ movementHistory' = gameState.movementHistory
            /\ Len(cacheLocations') = Len(gameState.cacheLocations)
            /\ \A k \in 1..Len(gameState.cacheLocations) :
                  /\ cacheLocations'[k].id = gameState.cacheLocations[k].id
                  /\ cacheLocations'[k].cell = gameState.cacheLocations[k].cell
                  /\ CoinCount(cacheLocations'[k])
                         = Len(gameState.cacheLocations[k].coins)]_vars

-----------------------------------------------------------------------------
(* Claims C21..C24 *)

\* C21: whenever a handler that changes playerCoins, playerLocation or the
\* live caches has run to completion (move, collect, deposit, geolocation
\* update), the gameState record in storage equals the current playerCoins,
\* player position, movementHistory and live cache list.
C21_StoredStateIsCurrent ==
    last.op \in {"move", "collect", "deposit", "geolocation"} =>
        localStorage = <<GameState(playerCoins, playerLocation, cacheLocations,
                                   movementHistory)>>

\* C22: in every reachable state in which movementHistory is not empty its
\* last entry is the current playerLocation, and each movePlayer appends
\* exactly one entry, the new position, and leaves the earlier entries.
C22_HistoryTracksPlayer ==
    /\ [](movementHistory # <<>> => Last(movementHistory) = playerLocation)
    /\ [][last'.op = "move" =>
            movementHistory' = Append(movementHistory, playerLocation')]_vars

\* C23: a collect or deposit on the cache at one index, successful or
\* rejected, leaves the coin lists of all other live caches, the memento
\* table, the player position and the movement history unchanged, and a
\* successful one keeps playerCoins plus the addressed cache's coin count
\* constant.
C23_CollectDepositAreLocal ==
    [][last'.op \in {"collect", "deposit"} =>
        /\ Len(cacheLocations') = Len(cacheLocations)
        /\ \A k \in 1..Len(cacheLocations) :
              k # last'.index + 1 => cacheLocations'[k] = cacheLocations[k]
        /\ UNCHANGED <<geocacheMementos, playerLocation, movementHistory>>
        /\ last'.ok =>
              playerCoins' + CoinCount(cacheLocations'[last'.index + 1])
                  = playerCoins + CoinCount(cacheLocations[last'.index + 1])]_vars

\* a coin has been deposited, after a move, while another live cache holds coins
C23_Witness ==
    /\ last.op = "deposit" /\ last.ok
    /\ movementHistory # <<>>
    /\ \E k \in 1..Len(cacheLocations) :
          k # last.index + 1 /\ cacheLocations[k].coins # <<>>

\* C24: in every reachable state cacheLocations holds at most 5 live caches,
\* and their ids are pairwise distinct and among cache-0 .. cache-4, whatever
\* the player's position and however many cells are in range.
C24_BoundedLiveSet ==
    /\ Len(cacheLocations) <= 5
    /\ \A k \in 1..Len(cacheLocations) :
          /\ cacheLocations[k].id \in {CacheId(i) : i \in 0..4}
          /\ \A m \in 1..Len(cacheLocations) :
                m # k => cacheLocations[m].id # cacheLocations[k].id

\* a position report has left five live caches spread over two cells
C24_Witness ==
    /\ last.op = "geolocation"
    /\ Len(cacheLocations) = 5
    /\ Cardinality(SavedKeys(cacheLocations)) >= 2

====
